---- MODULE Spec2Model ----
(***************************************************************************)
(* Model of the storage gas oracle reconciliation script                   *)
(* (main / setStorageGasOracleValues).  One run visits the target chains   *)
(* in order; for every Ethereum chain it reads the on-chain RemoteGasData  *)
(* of every remote of the configured table, collects the differing ones    *)
(* in configsToSet and, unless --dry-run is given, sends them in one       *)
(* setRemoteGasDataConfigs transaction.  Every await of the script (a      *)
(* contract read, a transaction submission) is one step, which either      *)
(* returns or throws.                                                      *)
(***************************************************************************)
EXTENDS Integers, Sequences, FiniteSets, TLC

(* ------------------------------ bounds --------------------------------- *)
\* longest list of target chains of one run
MaxLocal == 2
\* number of successive invocations of the script
MaxRuns == 2

(* ------------------------- the chain directory ------------------------- *)
Chains == {"alfajores", "fuji", "solanadevnet"}

\* multiProvider.getChainMetadata(chain).protocol
Protocol(chain) == IF chain = "solanadevnet" THEN "sealevel" ELSE "ethereum"

EthChains == {c \in Chains : Protocol(c) = "ethereum"}

\* multiProvider.getDomainId(remote): one id per chain name
getDomainId(remote) ==
  CASE remote = "alfajores" -> 101
    [] remote = "fuji" -> 102
    [] remote = "solanadevnet" -> 103

\* the remote domains a local oracle contract stores gas data for
RemoteDomains(local) == {getDomainId(r) : r \in Chains \ {local}}

(* ------------------------------ gas data ------------------------------- *)
GasValues == {1, 2}

RemoteGasData == [tokenExchangeRate : GasValues, gasPrice : GasValues]

\* the states of the StorageGasOracle contract of one local chain
OracleStates(local) == [RemoteDomains(local) -> RemoteGasData]

\* exact equality of both fields
eqRemoteGasData(a, b) ==
  /\ a.tokenExchangeRate = b.tokenExchangeRate
  /\ a.gasPrice = b.gasPrice

\* StorageGasOracle.setRemoteGasDataConfigs: stores every config of the batch
\* under its remote domain, in one transaction
RECURSIVE setRemoteGasDataConfigs(_, _)
setRemoteGasDataConfigs(state, configs) ==
  IF configs = <<>> THEN state
  ELSE LET c == Head(configs)
       IN setRemoteGasDataConfigs(
            [state EXCEPT ![c.remoteDomain] =
               [tokenExchangeRate |-> c.tokenExchangeRate, gasPrice |-> c.gasPrice]],
            Tail(configs))

(* ---------------------- the desired configuration ---------------------- *)
\* storageGasOracleConfig[chain] is undefined
Missing == [defined |-> FALSE, entries |-> <<>>]

\* the gas data the environment configures for local -> remote
DesiredGasData(local, remote) ==
  [tokenExchangeRate |-> IF remote = "solanadevnet" THEN 2 ELSE 1,
   gasPrice |-> IF local = "alfajores" THEN 1 ELSE 2]

\* the remote keys of one local table, in insertion order
KeyOrders(local) ==
  {ks \in UNION {[1..n -> Chains \ {local}] : n \in 0..2} :
     \A a, b \in DOMAIN ks : a # b => ks[a] # ks[b]}

\* a StorageGasOracleConfig: remote -> RemoteGasData, as the sequence of its
\* entries in insertion order
TableOf(local, ks) ==
  [defined |-> TRUE,
   entries |-> [n \in DOMAIN ks |->
                  [remote |-> ks[n], data |-> DesiredGasData(local, ks[n])]]]

LocalTables(local) == {Missing} \cup {TableOf(local, ks) : ks \in KeyOrders(local)}

\* the tables of one environment: one per Ethereum chain, possibly missing
EnvTables ==
  {[defined |-> TRUE,
    tables |-> [c \in Chains |->
                  IF c = "alfajores" THEN ta ELSE IF c = "fuji" THEN tf ELSE Missing]] :
     ta \in LocalTables("alfajores"), tf \in LocalTables("fuji")}

\* coreEnvConfig.storageGasOracleConfig is undefined
NoTable == [defined |-> FALSE, tables |-> [c \in Chains |-> Missing]]

\* the lists of target chains: [network], or igp.chains()
TargetLists ==
  {cs \in UNION {[1..n -> Chains] : n \in 1..MaxLocal} :
     \A a, b \in DOMAIN cs : a # b => cs[a] # cs[b]}

\* the Ethereum chains of a list of target chains: the chains whose
\* StorageGasOracle contract igp.getContracts hands to the run
Contracts(cs) == {cs[n] : n \in DOMAIN cs} \cap EthChains

\* the states of the contracts of a run
ContractStates(cs) ==
  {[c \in Contracts(cs) |-> IF c = "alfajores" THEN a ELSE f] :
     a \in OracleStates("alfajores"), f \in OracleStates("fuji")}

VARIABLES
  storageGasOracleConfig, \* NoTable, or the tables of the environment
  targetChains,           \* the chains of this run, in order
  dryRun,                 \* args.dryRun
  onchain,                \* target Ethereum chain -> remote domain -> RemoteGasData
  pc,                     \* position of main
  i,                      \* index of the chain of the for loop of main
  j,                      \* index of the remote of the for-in loop
  configsToSet,           \* pending updates of the chain being processed
  calls,                  \* network calls issued in this run, in order
  processed,              \* the chains whose processing reached its decision
  pending,                \* chain -> configsToSet at its decision
  onchain0,               \* on-chain state at the start of this run
  errorLogged,            \* console.error('Error', err) ran
  exitCode,               \* exit status of the process, once it ended
  run,                    \* number of the invocation
  prev,                   \* what the previous invocation did
  peer                    \* a second invocation that runs at the same time

vars == <<storageGasOracleConfig, targetChains, dryRun, onchain, pc, i, j,
          configsToSet, calls, processed, pending, onchain0, errorLogged,
          exitCode, run, prev, peer>>

\* the process has not ended: no exit status yet
NoExit == <<>>

\* there was no previous invocation
NoPrev ==
  [outcome |-> "none", dryRun |-> FALSE, processed |-> {},
   pending |-> [c \in Chains |-> <<>>], onchain0 |-> <<>>]

\* no second invocation is running
NoPeer == [pc |-> "absent", i |-> 0, j |-> 0, configsToSet |-> <<>>, sends |-> <<>>]

Init ==
  /\ peer = NoPeer
  /\ storageGasOracleConfig \in {NoTable} \cup EnvTables
  /\ targetChains \in TargetLists
  /\ dryRun \in BOOLEAN
  /\ onchain \in ContractStates(targetChains)
  /\ pc = "start"
  /\ i = 0
  /\ j = 0
  /\ configsToSet = <<>>
  /\ calls = <<>>
  /\ processed = {}
  /\ pending = [c \in Chains |-> <<>>]
  /\ onchain0 = onchain
  /\ errorLogged = FALSE
  /\ exitCode = NoExit
  /\ run = 1
  /\ prev = NoPrev

(* ------------------------------- helpers ------------------------------- *)
\* a slip: the loop of main walks the list from its end
local_Reversed == targetChains[Len(targetChains) + 1 - i]

\* the chain of the current iteration of main's loop
local == targetChains[i]

\* the entries the for-in loop visits: none when the table is undefined
Entries(table) == IF table.defined THEN table.entries ELSE <<>>

\* a slip: the loop visits every other chain, not the keys of the table
localStorageGasOracleConfig_AllRemotes ==
  TableOf(local, CHOOSE ks \in KeyOrders(local) : Len(ks) = 2).entries

\* localStorageGasOracleConfig of the current call
localStorageGasOracleConfig == Entries(storageGasOracleConfig.tables[local])

\* a remoteGasData call and a sendTransaction call, as recorded in calls
ReadCall(chain, remoteId, ok) ==
  [kind |-> "read", local |-> chain, remoteDomain |-> remoteId, configs |-> <<>>, ok |-> ok]

SendCall(chain, configs, ok) ==
  [kind |-> "send", local |-> chain, remoteDomain |-> 0, configs |-> configs, ok |-> ok]

\* a slip: the two fields are taken in the wrong order
RemoteGasDataConfig_Swapped(remoteId, desiredGasData) ==
  [remoteDomain |-> remoteId,
   tokenExchangeRate |-> desiredGasData.gasPrice,
   gasPrice |-> desiredGasData.tokenExchangeRate]

\* { remoteDomain: remoteId, ...desiredGasData }
RemoteGasDataConfig(remoteId, desiredGasData) ==
  [remoteDomain |-> remoteId,
   tokenExchangeRate |-> desiredGasData.tokenExchangeRate,
   gasPrice |-> desiredGasData.gasPrice]

\* slips of the if/else of the for-in loop
Compare_SpreadExisting(configs, remoteId, existingGasData, desiredGasData) ==
  IF eqRemoteGasData(existingGasData, desiredGasData)
  THEN configs
  ELSE Append(configs, RemoteGasDataConfig(remoteId, existingGasData))

Compare_DryRunSkips(configs, remoteId, existingGasData, desiredGasData) ==
  IF dryRun \/ eqRemoteGasData(existingGasData, desiredGasData)
  THEN configs
  ELSE Append(configs, RemoteGasDataConfig(remoteId, desiredGasData))

Compare_KeepsExistingPrice(configs, remoteId, existingGasData, desiredGasData) ==
  IF eqRemoteGasData(existingGasData, desiredGasData)
  THEN configs
  ELSE Append(configs,
         RemoteGasDataConfig(remoteId,
           [desiredGasData EXCEPT !.gasPrice = existingGasData.gasPrice]))

\* the if/else of the for-in loop: push the remote when its data differ
Compare(configs, remoteId, existingGasData, desiredGasData) ==
  IF eqRemoteGasData(existingGasData, desiredGasData)
  THEN configs
  ELSE Append(configs, RemoteGasDataConfig(remoteId, desiredGasData))

\* the chain's processing is over: back to main's loop
NextChain ==
  /\ processed' = processed \cup {local}
  /\ pending' = [pending EXCEPT ![local] = configsToSet]
  /\ i' = i + 1
  /\ j' = 0
  /\ configsToSet' = <<>>
  /\ pc' = "loop"

\* an exception leaves setStorageGasOracleValues and main at once
Throw ==
  /\ pc' = "thrown"
  /\ UNCHANGED <<i, j, configsToSet, processed, pending>>

(* ------------------------------- actions ------------------------------- *)
\* a slip: the check of the environment's table is left out
LoadConfig_NoCheck ==
  /\ pc = "start"
  /\ pc' = "loop"
  /\ i' = 1
  /\ UNCHANGED <<storageGasOracleConfig, targetChains, dryRun, onchain, j,
                 configsToSet, calls, processed, pending, onchain0, errorLogged,
                 exitCode, run, prev, peer>>

\* main up to the loop: the environment's table must exist
LoadConfig ==
  /\ pc = "start"
  /\ IF ~storageGasOracleConfig.defined
     THEN pc' = "thrown" /\ i' = i
     ELSE pc' = "loop" /\ i' = 1
  /\ UNCHANGED <<storageGasOracleConfig, targetChains, dryRun, onchain, j,
                 configsToSet, calls, processed, pending, onchain0, errorLogged, exitCode,
                 run, prev, peer>>

\* a slip: a chain that is not an Ethereum chain is an error
SkipChain_Throws ==
  /\ pc = "loop"
  /\ i <= Len(targetChains)
  /\ Protocol(local) # "ethereum"
  /\ pc' = "thrown"
  /\ UNCHANGED <<storageGasOracleConfig, targetChains, dryRun, onchain, i, j,
                 configsToSet, calls, processed, pending, onchain0, errorLogged,
                 exitCode, run, prev, peer>>

\* a chain that is not an Ethereum chain is skipped
SkipChain ==
  /\ pc = "loop"
  /\ i <= Len(targetChains)
  /\ Protocol(local) # "ethereum"
  /\ i' = i + 1
  /\ UNCHANGED <<storageGasOracleConfig, targetChains, dryRun, onchain, pc, j,
                 configsToSet, calls, processed, pending, onchain0, errorLogged, exitCode,
                 run, prev, peer>>

\* main calls setStorageGasOracleValues, which runs up to its first await
EnterChain ==
  /\ pc = "loop"
  /\ i <= Len(targetChains)
  /\ Protocol(local) = "ethereum"
  /\ IF ~storageGasOracleConfig.defined
     THEN pc' = "thrown" /\ UNCHANGED <<j, configsToSet>>
     ELSE pc' = "remotes" /\ j' = 1 /\ configsToSet' = <<>>
  /\ UNCHANGED <<storageGasOracleConfig, targetChains, dryRun, onchain, i,
                 calls, processed, pending, onchain0, errorLogged, exitCode, run, prev, peer>>

\* a slip: the data read are stored into the table
ReadRemote_OverwritesDesired ==
  /\ pc = "remotes"
  /\ j <= Len(localStorageGasOracleConfig)
  /\ LET remote == localStorageGasOracleConfig[j].remote
         desiredGasData == localStorageGasOracleConfig[j].data
         remoteId == getDomainId(remote)
         existingGasData == onchain[local][remoteId]
     IN /\ calls' = Append(calls, ReadCall(local, remoteId, TRUE))
        /\ configsToSet' = Compare(configsToSet, remoteId, existingGasData, desiredGasData)
        /\ storageGasOracleConfig' =
             [storageGasOracleConfig EXCEPT
                !.tables[local].entries[j].data = existingGasData]
  /\ j' = j + 1
  /\ UNCHANGED <<targetChains, dryRun, onchain, pc, i,
                 processed, pending, onchain0, errorLogged, exitCode, run, prev, peer>>

\* one iteration of the for-in loop whose read returns
ReadRemote ==
  /\ pc = "remotes"
  /\ j <= Len(localStorageGasOracleConfig)
  /\ LET remote == localStorageGasOracleConfig[j].remote
         desiredGasData == localStorageGasOracleConfig[j].data
         remoteId == getDomainId(remote)
         existingGasData == onchain[local][remoteId]
     IN /\ calls' = Append(calls, ReadCall(local, remoteId, TRUE))
        /\ configsToSet' = Compare(configsToSet, remoteId, existingGasData, desiredGasData)
  /\ j' = j + 1
  /\ UNCHANGED <<storageGasOracleConfig, targetChains, dryRun, onchain, pc, i,
                 processed, pending, onchain0, errorLogged, exitCode, run, prev, peer>>

\* a slip: a read that throws is caught and the loop goes on
ReadFail_Continues ==
  /\ pc = "remotes"
  /\ j <= Len(localStorageGasOracleConfig)
  /\ calls' = Append(calls,
        ReadCall(local, getDomainId(localStorageGasOracleConfig[j].remote), FALSE))
  /\ j' = j + 1
  /\ UNCHANGED <<storageGasOracleConfig, targetChains, dryRun, onchain, pc, i,
                 configsToSet, processed, pending, onchain0, errorLogged,
                 exitCode, run, prev, peer>>

\* a slip: a read that throws is issued once more before giving up
ReadFail_RetriesOnce ==
  /\ pc = "remotes"
  /\ j <= Len(localStorageGasOracleConfig)
  /\ calls' = Append(calls,
        ReadCall(local, getDomainId(localStorageGasOracleConfig[j].remote), FALSE))
  /\ IF calls # <<>> /\ ~calls[Len(calls)].ok
     THEN Throw
     ELSE UNCHANGED <<pc, i, j, configsToSet, processed, pending>>
  /\ UNCHANGED <<storageGasOracleConfig, targetChains, dryRun, onchain,
                 onchain0, errorLogged, exitCode, run, prev, peer>>

\* one iteration of the for-in loop whose read throws
ReadFail ==
  /\ pc = "remotes"
  /\ j <= Len(localStorageGasOracleConfig)
  /\ calls' = Append(calls,
        ReadCall(local, getDomainId(localStorageGasOracleConfig[j].remote), FALSE))
  /\ Throw
  /\ UNCHANGED <<storageGasOracleConfig, targetChains, dryRun, onchain,
                 onchain0, errorLogged, exitCode, run, prev, peer>>

\* nothing differs: no transaction
NothingToSet ==
  /\ pc = "remotes"
  /\ j > Len(localStorageGasOracleConfig)
  /\ Len(configsToSet) = 0
  /\ NextChain
  /\ UNCHANGED <<storageGasOracleConfig, targetChains, dryRun, onchain, calls,
                 onchain0, errorLogged, exitCode, run, prev, peer>>

\* a slip: the dry run flag is not looked at
DryRunNotice_Sends ==
  /\ pc = "remotes"
  /\ j > Len(localStorageGasOracleConfig)
  /\ Len(configsToSet) > 0
  /\ dryRun
  /\ calls' = Append(calls, SendCall(local, configsToSet, TRUE))
  /\ onchain' = [onchain EXCEPT ![local] = setRemoteGasDataConfigs(@, configsToSet)]
  /\ NextChain
  /\ UNCHANGED <<storageGasOracleConfig, targetChains, dryRun, onchain0,
                 errorLogged, exitCode, run, prev, peer>>

\* something differs, in dry run mode: no transaction
DryRunNotice ==
  /\ pc = "remotes"
  /\ j > Len(localStorageGasOracleConfig)
  /\ Len(configsToSet) > 0
  /\ dryRun
  /\ NextChain
  /\ UNCHANGED <<storageGasOracleConfig, targetChains, dryRun, onchain, calls,
                 onchain0, errorLogged, exitCode, run, prev, peer>>

\* a slip: one transaction per differing remote
SendTransaction_PerRemote ==
  /\ pc = "remotes"
  /\ j > Len(localStorageGasOracleConfig)
  /\ Len(configsToSet) > 0
  /\ ~dryRun
  /\ calls' = calls \o [k \in DOMAIN configsToSet |->
                          SendCall(local, <<configsToSet[k]>>, TRUE)]
  /\ onchain' = [onchain EXCEPT ![local] = setRemoteGasDataConfigs(@, configsToSet)]
  /\ NextChain
  /\ UNCHANGED <<storageGasOracleConfig, targetChains, dryRun, onchain0,
                 errorLogged, exitCode, run, prev, peer>>

\* a slip: the transaction carries the first pending update only
SendTransaction_FirstOnly ==
  /\ pc = "remotes"
  /\ j > Len(localStorageGasOracleConfig)
  /\ Len(configsToSet) > 0
  /\ ~dryRun
  /\ calls' = Append(calls, SendCall(local, <<Head(configsToSet)>>, TRUE))
  /\ onchain' = [onchain EXCEPT ![local] =
                   setRemoteGasDataConfigs(@, <<Head(configsToSet)>>)]
  /\ NextChain
  /\ UNCHANGED <<storageGasOracleConfig, targetChains, dryRun, onchain0,
                 errorLogged, exitCode, run, prev, peer>>

\* a slip: the transaction is sent as soon as something differs
SendTransaction_Early ==
  /\ pc = "remotes"
  /\ Len(configsToSet) > 0
  /\ ~dryRun
  /\ calls' = Append(calls, SendCall(local, configsToSet, TRUE))
  /\ onchain' = [onchain EXCEPT ![local] = setRemoteGasDataConfigs(@, configsToSet)]
  /\ NextChain
  /\ UNCHANGED <<storageGasOracleConfig, targetChains, dryRun, onchain0,
                 errorLogged, exitCode, run, prev, peer>>

\* something differs: one setRemoteGasDataConfigs transaction, which succeeds
SendTransaction ==
  /\ pc = "remotes"
  /\ j > Len(localStorageGasOracleConfig)
  /\ Len(configsToSet) > 0
  /\ ~dryRun
  /\ calls' = Append(calls, SendCall(local, configsToSet, TRUE))
  /\ onchain' = [onchain EXCEPT ![local] = setRemoteGasDataConfigs(@, configsToSet)]
  /\ NextChain
  /\ UNCHANGED <<storageGasOracleConfig, targetChains, dryRun, onchain0,
                 errorLogged, exitCode, run, prev, peer>>

\* a slip: a rejected transaction undoes the writes of the earlier chains
SendFail_RollsBack ==
  /\ pc = "remotes"
  /\ j > Len(localStorageGasOracleConfig)
  /\ Len(configsToSet) > 0
  /\ ~dryRun
  /\ calls' = Append(calls, SendCall(local, configsToSet, FALSE))
  /\ onchain' = onchain0
  /\ Throw
  /\ UNCHANGED <<storageGasOracleConfig, targetChains, dryRun,
                 onchain0, errorLogged, exitCode, run, prev, peer>>

\* the transaction is rejected: sendTransaction throws, the contract is unchanged
SendFail ==
  /\ pc = "remotes"
  /\ j > Len(localStorageGasOracleConfig)
  /\ Len(configsToSet) > 0
  /\ ~dryRun
  /\ calls' = Append(calls, SendCall(local, configsToSet, FALSE))
  /\ Throw
  /\ UNCHANGED <<storageGasOracleConfig, targetChains, dryRun, onchain,
                 onchain0, errorLogged, exitCode, run, prev, peer>>

\* the loop of main is over: main's promise resolves and the process ends
Finish ==
  /\ pc = "loop"
  /\ i > Len(targetChains)
  /\ pc' = "done"
  /\ exitCode' = <<0>>
  /\ UNCHANGED <<storageGasOracleConfig, targetChains, dryRun, onchain, i, j,
                 configsToSet, calls, processed, pending, onchain0, errorLogged, run, prev, peer>>

\* main().catch: the rejection is logged and handled, and the process ends
CatchError ==
  /\ pc = "thrown"
  /\ pc' = "caught"
  /\ errorLogged' = TRUE
  /\ exitCode' = <<0>>
  /\ UNCHANGED <<storageGasOracleConfig, targetChains, dryRun, onchain, i, j,
                 configsToSet, calls, processed, pending, onchain0, run, prev, peer>>

\* the script is invoked again after a completed run, on the same environment
\* and chains (a run that follows an aborted one starts from an on-chain state
\* that Init covers)
Rerun ==
  /\ pc = "done"
  /\ run < MaxRuns
  /\ prev' = [outcome |-> pc, dryRun |-> dryRun, processed |-> processed,
              pending |-> pending, onchain0 |-> onchain0]
  /\ run' = run + 1
  /\ dryRun' \in BOOLEAN
  /\ pc' = "start"
  /\ i' = 0
  /\ j' = 0
  /\ configsToSet' = <<>>
  /\ calls' = <<>>
  /\ processed' = {}
  /\ pending' = [c \in Chains |-> <<>>]
  /\ onchain0' = onchain
  /\ errorLogged' = FALSE
  /\ exitCode' = NoExit
  /\ UNCHANGED <<storageGasOracleConfig, targetChains, onchain, peer>>

Next ==
  \/ LoadConfig
  \/ SkipChain
  \/ EnterChain
  \/ ReadRemote
  \/ ReadFail
  \/ NothingToSet
  \/ DryRunNotice
  \/ SendTransaction
  \/ SendFail
  \/ Finish
  \/ CatchError

\* one invocation of the script
Spec == Init /\ [][Next]_vars

\* one invocation whose steps are all taken in the end: every call that is
\* awaited returns or throws, and the code between two awaits runs
FairSpec == Init /\ [][Next]_vars /\ WF_vars(Next)

\* successive invocations of the script
NextRerun ==
  \/ Next
  \/ Rerun

SpecRerun == Init /\ [][NextRerun]_vars

(* ------------------- a second, concurrent invocation ------------------- *)
\* The same script, started on the same environment, chains and contracts
\* while the first invocation runs.  Its steps are those of main and
\* setStorageGasOracleValues, on its own locals, held in peer.  An
\* invocation that aborts issues no further call: for the other invocation
\* and for the contracts it is an invocation that takes no further step,
\* which every state of the race allows, so the race has no step for a call
\* that fails.

\* what the first invocation owns: a step of the peer leaves it alone
own == <<storageGasOracleConfig, targetChains, dryRun, pc, i, j, configsToSet,
         calls, processed, pending, onchain0, errorLogged, exitCode, run, prev>>

\* the chain and the table of the peer's current iteration
peerLocal == targetChains[peer.i]
peerConfig == Entries(storageGasOracleConfig.tables[peerLocal])

PeerLoadConfig ==
  /\ peer.pc = "start"
  /\ storageGasOracleConfig.defined
  /\ peer' = [peer EXCEPT !.pc = "loop", !.i = 1]
  /\ UNCHANGED <<own, onchain>>

PeerSkipChain ==
  /\ peer.pc = "loop"
  /\ peer.i <= Len(targetChains)
  /\ Protocol(peerLocal) # "ethereum"
  /\ peer' = [peer EXCEPT !.i = @ + 1]
  /\ UNCHANGED <<own, onchain>>

PeerEnterChain ==
  /\ peer.pc = "loop"
  /\ peer.i <= Len(targetChains)
  /\ Protocol(peerLocal) = "ethereum"
  /\ peer' = [peer EXCEPT !.pc = "remotes", !.j = 1, !.configsToSet = <<>>]
  /\ UNCHANGED <<own, onchain>>

PeerReadRemote ==
  /\ peer.pc = "remotes"
  /\ peer.j <= Len(peerConfig)
  /\ LET desiredGasData == peerConfig[peer.j].data
         remoteId == getDomainId(peerConfig[peer.j].remote)
         existingGasData == onchain[peerLocal][remoteId]
     IN peer' = [peer EXCEPT
                   !.configsToSet = Compare(@, remoteId, existingGasData, desiredGasData),
                   !.j = @ + 1]
  /\ UNCHANGED <<own, onchain>>

PeerNothingToSet ==
  /\ peer.pc = "remotes"
  /\ peer.j > Len(peerConfig)
  /\ Len(peer.configsToSet) = 0
  /\ peer' = [peer EXCEPT !.pc = "loop", !.i = @ + 1, !.j = 0]
  /\ UNCHANGED <<own, onchain>>

PeerSendTransaction ==
  /\ peer.pc = "remotes"
  /\ peer.j > Len(peerConfig)
  /\ Len(peer.configsToSet) > 0
  /\ ~dryRun
  /\ onchain' = [onchain EXCEPT
                   ![peerLocal] = setRemoteGasDataConfigs(@, peer.configsToSet)]
  /\ peer' = [peer EXCEPT
                !.sends = Append(@, SendCall(peerLocal, peer.configsToSet, TRUE)),
                !.pc = "loop", !.i = @ + 1, !.j = 0, !.configsToSet = <<>>]
  /\ UNCHANGED own

PeerFinish ==
  /\ peer.pc = "loop"
  /\ peer.i > Len(targetChains)
  /\ peer' = [peer EXCEPT !.pc = "done"]
  /\ UNCHANGED <<own, onchain>>

\* the environments that configure every Ethereum chain for each of the
\* other chains, in either order
CompleteTables ==
  {t \in EnvTables : \A c \in EthChains : Len(Entries(t.tables[c])) = 2}

\* two invocations without --dry-run start together
InitRace ==
  /\ peer = [NoPeer EXCEPT !.pc = "start"]
  /\ storageGasOracleConfig \in CompleteTables
  /\ targetChains \in TargetLists
  /\ dryRun = FALSE
  /\ onchain \in ContractStates(targetChains)
  /\ pc = "start"
  /\ i = 0
  /\ j = 0
  /\ configsToSet = <<>>
  /\ calls = <<>>
  /\ processed = {}
  /\ pending = [c \in Chains |-> <<>>]
  /\ onchain0 = onchain
  /\ errorLogged = FALSE
  /\ exitCode = NoExit
  /\ run = 1
  /\ prev = NoPrev

NextRace ==
  \/ LoadConfig
  \/ SkipChain
  \/ EnterChain
  \/ ReadRemote
  \/ NothingToSet
  \/ SendTransaction
  \/ Finish
  \/ PeerLoadConfig
  \/ PeerSkipChain
  \/ PeerEnterChain
  \/ PeerReadRemote
  \/ PeerNothingToSet
  \/ PeerSendTransaction
  \/ PeerFinish

SpecRace == InitRace /\ [][NextRace]_vars

TypeOK ==
  /\ pc \in {"start", "loop", "remotes", "thrown", "done", "caught"}
  /\ run \in 1..MaxRuns

(* ---------------------- what the claims speak about -------------------- *)
\* the desired table of a chain, as the run sees it
Table(c) == Entries(storageGasOracleConfig.tables[c])

\* the sendTransaction calls and the remoteGasData calls issued on a chain
Sends(c) == SelectSeq(calls, LAMBDA x : x.kind = "send" /\ x.local = c)
Reads(c) == SelectSeq(calls, LAMBDA x : x.kind = "read" /\ x.local = c)

NoSend == \A n \in DOMAIN calls : calls[n].kind # "send"

\* the n-th remote of the table of c differs from the contract of c as it was
\* at the start of the run, in at least one field
Drifted(c, n) == onchain0[c][getDomainId(Table(c)[n].remote)] # Table(c)[n].data

\* the pending updates the first n remotes of the table of c call for: the
\* drifted ones, in table order, with their domain id and desired values
ExpectedConfigs(c, n) ==
  LET drifted == SelectSeq([k \in 1..n |-> k], LAMBDA k : Drifted(c, k))
  IN [m \in DOMAIN drifted |->
        [remoteDomain |-> getDomainId(Table(c)[drifted[m]].remote),
         tokenExchangeRate |-> Table(c)[drifted[m]].data.tokenExchangeRate,
         gasPrice |-> Table(c)[drifted[m]].data.gasPrice]]

Aborted == pc \in {"thrown", "caught"}

\* an Ethereum target chain has no table in a configuration that exists
MissingEntry ==
  /\ storageGasOracleConfig.defined
  /\ \E k \in DOMAIN targetChains :
       /\ Protocol(targetChains[k]) = "ethereum"
       /\ ~storageGasOracleConfig.tables[targetChains[k]].defined

(* -------------------------------- claims ------------------------------- *)
\* C1: when a target chain has no entry in the desired configuration, the run
\* fails with a precondition error before any read: no call is ever issued
\* and the run never completes.
C1_MissingEntryFailsBeforeReads ==
  MissingEntry => (calls = <<>> /\ pc # "done")

\* C2: in a dry run no transaction is ever submitted and the on-chain state
\* of every chain stays what it was at the start of the run.
C2_DryRunSendsNothing ==
  dryRun => (NoSend /\ onchain = onchain0)

C2_Witness ==
  /\ dryRun
  /\ pc = "done"
  /\ \E c \in processed : Len(pending[c]) = 2

\* C3: outside dry run, a processed chain got exactly one transaction when
\* some remote of its table drifted and none otherwise; the transaction went
\* to that chain and carries its whole pending-update list; no chain gets two
\* transactions or an empty batch.
C3_OneBatchPerChain ==
  ~dryRun =>
    /\ \A c \in processed :
         IF \E n \in DOMAIN Table(c) : Drifted(c, n)
         THEN /\ Len(Sends(c)) = 1
              /\ Sends(c)[1].configs = pending[c]
              /\ Sends(c)[1].configs = ExpectedConfigs(c, Len(Table(c)))
         ELSE Len(Sends(c)) = 0
    /\ \A c \in Chains : Len(Sends(c)) <= 1
    /\ \A n \in DOMAIN calls : calls[n].kind = "send" => calls[n].configs # <<>>

C3_Witness ==
  /\ ~dryRun
  /\ pc = "done"
  /\ \E c \in processed : Len(Sends(c)) = 1 /\ Len(Sends(c)[1].configs) = 2
  /\ \E c \in processed : Len(Table(c)) = 2 /\ Len(Sends(c)) = 0

\* C4: a run that follows a completed run without dry run, on the same
\* chains and configuration, finds no pending update on any chain and
\* submits no transaction.
C4_SecondRunIdle ==
  (prev.outcome = "done" /\ ~prev.dryRun) =>
    /\ configsToSet = <<>>
    /\ \A c \in Chains : pending[c] = <<>>
    /\ NoSend

C4_Witness ==
  /\ prev.outcome = "done"
  /\ ~prev.dryRun
  /\ \E c \in prev.processed : Len(prev.pending[c]) = 2
  /\ ~dryRun
  /\ pc = "done"
  /\ processed = prev.processed

\* C5: the pending-update list of a chain holds exactly the remotes of its
\* table whose on-chain data differ from the desired data in some field, each
\* with its domain id and its desired values; this holds remote by remote
\* while the table is read and at the end of the chain's processing.
C5_PendingIsExactlyTheDrift ==
  /\ pc = "remotes" => configsToSet = ExpectedConfigs(local, j - 1)
  /\ \A c \in processed : pending[c] = ExpectedConfigs(c, Len(Table(c)))

C5_Witness ==
  \E c \in processed :
    /\ Len(Table(c)) = 2
    /\ ~Drifted(c, 1)
    /\ Drifted(c, 2)
    /\ onchain0[c][getDomainId(Table(c)[2].remote)].gasPrice = Table(c)[2].data.gasPrice
    /\ Len(pending[c]) = 1

\* C6: a chain that is not an Ethereum chain is never read, written or
\* processed, the run never fails at it, and a run that completes has
\* processed every Ethereum chain of the list, those after it included.
C6_NonEthereumSkipped ==
  /\ \A n \in DOMAIN calls : Protocol(calls[n].local) = "ethereum"
  /\ \A c \in processed : Protocol(c) = "ethereum"
  /\ (Aborted /\ i >= 1) => Protocol(targetChains[i]) = "ethereum"
  /\ pc = "done" => processed = Contracts(targetChains)

C6_Witness ==
  /\ pc = "done"
  /\ Len(targetChains) = 2
  /\ Protocol(targetChains[1]) # "ethereum"
  /\ Len(Reads(targetChains[2])) = 2
  /\ Len(Sends(targetChains[2])) = 1

\* C7: a call that failed is the last call of the run and the run is
\* aborted: nothing is retried, and neither the chain it failed on nor any
\* later chain is processed or called afterwards.
C7_FailFast ==
  /\ \A n \in DOMAIN calls : ~calls[n].ok => (n = Len(calls) /\ Aborted)
  /\ (Aborted /\ i >= 1) =>
       /\ \A k \in i..Len(targetChains) : targetChains[k] \notin processed
       /\ \A k \in (i + 1)..Len(targetChains) :
            Reads(targetChains[k]) = <<>> /\ Sends(targetChains[k]) = <<>>
       /\ calls # <<>>
       /\ ~calls[Len(calls)].ok
       /\ calls[Len(calls)].local = targetChains[i]

C7_Witness ==
  /\ pc = "caught"
  /\ i = 1
  /\ Len(targetChains) = 2
  /\ Protocol(targetChains[2]) = "ethereum"
  /\ Len(Table(targetChains[2])) = 2
  /\ Len(calls) = 2
  /\ calls[2].kind = "read"

\* C8: a dry run and a run without dry run of the same chains, configuration
\* and initial on-chain state compute the same pending-update list for every
\* chain both of them processed.
C8_DryRunSamePending ==
  (prev.outcome = "done" /\ prev.dryRun # dryRun /\ prev.onchain0 = onchain0) =>
    \A c \in processed \cap prev.processed : pending[c] = prev.pending[c]

C8_Witness ==
  /\ prev.outcome = "done"
  /\ prev.dryRun
  /\ ~dryRun
  /\ pc = "done"
  /\ \E c \in processed : Len(pending[c]) = 1 /\ Len(prev.pending[c]) = 1
  /\ \E c \in processed : Len(pending[c]) = 2 /\ Len(prev.pending[c]) = 2

\* C9: when the environment has no storage gas oracle configuration the run
\* fails before it visits a chain: no call is issued and nothing changes
\* on-chain.
C9_NoTableFailsFirst ==
  ~storageGasOracleConfig.defined =>
    /\ calls = <<>>
    /\ i = 0
    /\ processed = {}
    /\ pc \in {"start", "thrown", "caught"}
    /\ onchain = onchain0

C9_Witness ==
  /\ ~storageGasOracleConfig.defined
  /\ pc = "caught"
  /\ Contracts(targetChains) # {}

\* C10: an aborted run ends with the error surfaced and a non-zero exit
\* status.
C10_AbortExitsNonZero ==
  pc = "caught" => (errorLogged /\ exitCode # <<>> /\ exitCode[1] # 0)

\* C11: when a run aborts, every chain processed before the failure keeps
\* what its transaction wrote: each remote of its table holds the desired
\* data on-chain, and the chain got no second, compensating transaction.
C11_NoRollback ==
  (Aborted /\ ~dryRun) =>
    \A c \in processed :
      /\ \A n \in DOMAIN Table(c) :
           onchain[c][getDomainId(Table(c)[n].remote)] = Table(c)[n].data
      /\ Len(Sends(c)) <= 1
      /\ \A n \in DOMAIN Sends(c) : Sends(c)[n].ok

C11_Witness ==
  /\ pc = "caught"
  /\ ~dryRun
  /\ i = 2
  /\ Len(Sends(targetChains[1])) = 1
  /\ onchain[targetChains[1]] # onchain0[targetChains[1]]
  /\ calls[Len(calls)].kind = "send"
  /\ ~calls[Len(calls)].ok

\* the domain ids of the keys of the table of c, as a set and in table order
KeyIds(c) == {getDomainId(Table(c)[n].remote) : n \in DOMAIN Table(c)}
KeyIdSeq(c) == [n \in DOMAIN Table(c) |-> getDomainId(Table(c)[n].remote)]

\* the position of a target chain in the list
Pos(c) == CHOOSE k \in DOMAIN targetChains : targetChains[k] = c

\* C12: every remote domain read on a chain, and every remote domain a
\* transaction of the chain writes, is the domain id of a key of the chain's
\* table; a processed chain had exactly the keys of its table read; the
\* on-chain data of a remote that is no key of the table are never changed.
C12_OnlyTableKeysTouched ==
  /\ \A n \in DOMAIN calls :
       /\ calls[n].kind = "read" => calls[n].remoteDomain \in KeyIds(calls[n].local)
       /\ \A m \in DOMAIN calls[n].configs :
            calls[n].configs[m].remoteDomain \in KeyIds(calls[n].local)
  /\ \A c \in processed :
       {Reads(c)[n].remoteDomain : n \in DOMAIN Reads(c)} = KeyIds(c)
  /\ \A c \in DOMAIN onchain : \A d \in RemoteDomains(c) \ KeyIds(c) :
       onchain[c][d] = onchain0[c][d]

C12_Witness ==
  /\ pc = "done"
  /\ \E c \in processed :
       /\ Len(Table(c)) = 1
       /\ Len(Reads(c)) = 1
       /\ Len(Sends(c)) = 1
       /\ onchain[c] # onchain0[c]

\* C13: the calls of a run follow the order of the target list: a call on a
\* chain is never followed by a call on an earlier chain, and when a call is
\* issued on a chain every Ethereum chain before it has been processed, with
\* all the reads of its table and its transaction, if one was due, done.
C13_ChainsInOrder ==
  /\ \A n, m \in DOMAIN calls :
       n < m => Pos(calls[n].local) <= Pos(calls[m].local)
  /\ \A n \in DOMAIN calls : \A k \in 1..(Pos(calls[n].local) - 1) :
       Protocol(targetChains[k]) = "ethereum" =>
         /\ targetChains[k] \in processed
         /\ Len(Reads(targetChains[k])) = Len(Table(targetChains[k]))
         /\ (pending[targetChains[k]] # <<>> /\ ~dryRun) =>
              Len(Sends(targetChains[k])) = 1

C13_Witness ==
  /\ Len(targetChains) = 2
  /\ Len(Reads(targetChains[1])) = 2
  /\ Len(Sends(targetChains[1])) = 1
  /\ Len(Reads(targetChains[2])) = 1

\* C14: the reads of a chain follow the insertion order of its table, one
\* per key; a transaction of the chain comes after a successful read of
\* every key, no read of the chain comes after it, and it carries the
\* updates the whole table calls for.
C14_ReadsThenWrite ==
  /\ \A c \in Chains :
       /\ Len(Reads(c)) <= Len(Table(c))
       /\ \A n \in DOMAIN Reads(c) : Reads(c)[n].remoteDomain = KeyIdSeq(c)[n]
  /\ \A n \in DOMAIN calls :
       calls[n].kind = "send" =>
         /\ Cardinality({m \in 1..(n - 1) :
               /\ calls[m].kind = "read"
               /\ calls[m].local = calls[n].local
               /\ calls[m].ok}) = Len(Table(calls[n].local))
         /\ \A m \in (n + 1)..Len(calls) : calls[m].local # calls[n].local
         /\ calls[n].configs = ExpectedConfigs(calls[n].local, Len(Table(calls[n].local)))

C14_Witness ==
  \E c \in Chains :
    /\ Len(Reads(c)) = 2
    /\ KeyIdSeq(c)[1] > KeyIdSeq(c)[2]
    /\ Len(Sends(c)) = 1
    /\ Len(Sends(c)[1].configs) = 1
    /\ Sends(c)[1].configs[1].remoteDomain = KeyIdSeq(c)[1]

\* C16: no step of a run changes the desired configuration.
C16_DesiredNeverChanges ==
  [][storageGasOracleConfig' = storageGasOracleConfig]_vars

C16_Witness ==
  /\ pc = "done"
  /\ ~dryRun
  /\ Cardinality(processed) = 2
  /\ \A c \in processed : Len(Reads(c)) = 2 /\ Len(Sends(c)) = 1

\* C17: a run without dry run that completes leaves, for every processed
\* chain and every remote of its table, the desired data on-chain under the
\* remote's domain id.
C17_CompletedRunConverged ==
  (pc = "done" /\ ~dryRun) =>
    \A c \in processed : \A n \in DOMAIN Table(c) :
      onchain[c][getDomainId(Table(c)[n].remote)] = Table(c)[n].data

C17_Witness ==
  /\ pc = "done"
  /\ ~dryRun
  /\ \E c \in processed :
       /\ Len(pending[c]) = 2
       /\ \A d \in KeyIds(c) :
            onchain0[c][d].tokenExchangeRate # onchain[c][d].tokenExchangeRate

\* the run has ended, completed or aborted
Terminated == pc \in {"done", "caught"}

\* no (local chain, remote domain) is read twice and no chain is sent two
\* transactions, failed calls included
EachCallOnce ==
  /\ \A n, m \in DOMAIN calls :
       (n # m /\ calls[n].kind = "read" /\ calls[m].kind = "read"
          /\ calls[n].local = calls[m].local) =>
         calls[n].remoteDomain # calls[m].remoteDomain
  /\ \A c \in Chains : Len(Sends(c)) <= 1

\* C15: a run is one linear pass: each (local chain, remote) is read at most
\* once, each chain is written at most once, a failed call is never issued
\* again, and, every awaited call returning or failing, the run ends,
\* completed or aborted.
C15_LinearPassTerminates ==
  /\ []EachCallOnce
  /\ <>Terminated

C15_Witness ==
  /\ pc = "done"
  /\ Len(calls) = 6
  /\ Cardinality({n \in DOMAIN calls : calls[n].kind = "send"}) = 2

\* a pending update of chain c carries the desired data of a key of its table
IsDesired(c, config) ==
  \E n \in DOMAIN Table(c) :
    /\ config.remoteDomain = getDomainId(Table(c)[n].remote)
    /\ config.tokenExchangeRate = Table(c)[n].data.tokenExchangeRate
    /\ config.gasPrice = Table(c)[n].data.gasPrice

\* every pending update of a list of transactions is a desired one, and no
\* two transactions of the list go to the same chain
DesiredOnly(sends) ==
  /\ \A n \in DOMAIN sends : \A m \in DOMAIN sends[n].configs :
       IsDesired(sends[n].local, sends[n].configs[m])
  /\ \A n, m \in DOMAIN sends :
       (n # m /\ sends[n].kind = "send" /\ sends[m].kind = "send") =>
         sends[n].local # sends[m].local

\* C18: two invocations without dry run race on the same chains: whatever
\* the interleaving, every value either of them writes is the desired value,
\* neither sends a chain two transactions, and once both have completed
\* every remote of every table holds the desired data on-chain.
C18_RaceWritesDesired ==
  /\ DesiredOnly(calls)
  /\ DesiredOnly(peer.sends)
  /\ (pc = "done" /\ peer.pc = "done") =>
       \A c \in Contracts(targetChains) : \A n \in DOMAIN Table(c) :
         onchain[c][getDomainId(Table(c)[n].remote)] = Table(c)[n].data

C18_Witness ==
  /\ pc = "done"
  /\ peer.pc = "done"
  /\ \E c \in Contracts(targetChains) :
       /\ Len(Sends(c)) = 1
       /\ Len(SelectSeq(peer.sends, LAMBDA x : x.local = c)) = 1
       /\ Len(Sends(c)[1].configs) = 2

====
